---------------------------- MODULE Spec2Model ----------------------------
(***************************************************************************)
(* Model of src/app.py: the bond pricing engine (get_bond_price), the      *)
(* shock applied to the four-position portfolio, and the bank-run          *)
(* liquidity waterfall Cash -> AFS -> HTM.                                  *)
(*                                                                         *)
(* Numbers.  The script computes in Python floats.  Here a float is an     *)
(* exact rational <<numerator, denominator>> in lowest terms with a        *)
(* positive denominator, so the waterfall's arithmetic (lines 93-119) is   *)
(* exact.  Only the discounting inside get_bond_price (line 69), whose     *)
(* exact value needs powers of (1 + y) up to the 30th, is rounded: the     *)
(* growth factor (1 + y)^t is kept to 1/Scale and each discounted cash     *)
(* flow to 1/PriceGrid of a currency unit, both to the nearest.            *)
(***************************************************************************)
EXTENDS Integers, Sequences, FiniteSets

VARIABLES
    rate_shock_bps,         \* slider, line 38
    withdrawal_pct,         \* slider, line 49
    pc,                     \* position of the script run
    df,                     \* the DataFrame columns of lines 81-85
    withdrawal_amount,      \* line 93
    remaining_withdrawal,   \* lines 94-111
    current_equity,         \* lines 95-119
    cash_used,              \* line 98
    afs_needed,             \* line 103
    afs_loss_realized,      \* lines 101-109
    htm_loss_pct,           \* line 113
    htm_face_needed,        \* line 117
    htm_loss_realized,      \* lines 114-118
    alert,                  \* the solvency alert of lines 139-144
    args,                   \* arguments of a direct call of get_bond_price
    ret                     \* what that call returned or raised

progvars == <<rate_shock_bps, withdrawal_pct, df, withdrawal_amount,
              remaining_withdrawal, current_equity, cash_used, afs_needed,
              afs_loss_realized, htm_loss_pct, htm_face_needed,
              htm_loss_realized, alert>>

callvars == <<args, ret>>

vars == <<pc, progvars, callvars>>

\* A name the script has not assigned yet.
Undefined == <<>>

----------------------------------------------------------------------------
(* Float arithmetic as exact rationals *)

Abs(x) == IF x < 0 THEN -x ELSE x

GCD[a \in Nat, b \in Nat] == IF b = 0 THEN a ELSE GCD[b, a % b]

\* n/d in lowest terms, denominator positive (d # 0).
Norm[n \in Int, d \in Int] ==
    LET g == GCD[Abs(n), Abs(d)]
        s == IF d < 0 THEN -1 ELSE 1
    IN  <<s * (n \div g), s * (d \div g)>>

R(i) == <<i, 1>>

RNeg(a) == <<-a[1], a[2]>>

RAbs(a) == <<Abs(a[1]), a[2]>>

RAdd(a, b) ==
    LET g == GCD[a[2], b[2]]
    IN  Norm[a[1] * (b[2] \div g) + b[1] * (a[2] \div g), (a[2] \div g) * b[2]]

RSub(a, b) == RAdd(a, RNeg(b))

RMul(a, b) ==
    LET g1 == GCD[Abs(a[1]), b[2]]
        g2 == GCD[Abs(b[1]), a[2]]
    IN  Norm[(a[1] \div g1) * (b[1] \div g2), (a[2] \div g2) * (b[2] \div g1)]

\* a / b, for b # 0
RDiv(a, b) == RMul(a, Norm[b[2], b[1]])

RLeq(a, b) == a[1] * b[2] <= b[1] * a[2]

RLt(a, b) == a[1] * b[2] < b[1] * a[2]

RMin(a, b) == IF RLeq(a, b) THEN a ELSE b

\* Series.sum()
RSum[s \in Seq(Int \X Int)] ==
    IF s = <<>> THEN R(0) ELSE RAdd(Head(s), RSum[Tail(s)])

----------------------------------------------------------------------------
(* 1. Bond pricing engine, lines 65-69 *)

\* Resolution of the growth factor (1 + yield)^t.
Scale == 10000

\* Resolution of a discounted cash flow: parts of one currency unit.
PriceGrid == 2

\* Lines 66-68: c = face * coupon; cash_flows = [c] * maturity, the empty
\* list when maturity <= 0; the last cash flow is raised by face.
CashFlows[face \in Int, coupon \in Int \X Int, maturity \in Int] ==
    [t \in 1..maturity |->
        IF t = maturity THEN RAdd(RMul(R(face), coupon), R(face))
        ELSE RMul(R(face), coupon)]

\* x / y for y > 0, rounded to the nearest integer.
Nearest(x, y) == (2 * x + y) \div (2 * y)

\* sum of cf / (1 + yield_rate) ** (t + 1) over the cash flows from the t-th
\* on, in 1/PriceGrid; growth is (1 + yield_rate) ** (t - 1), in 1/Scale.
DiscountedSum[cash_flows \in Seq(Int \X Int), yield_rate \in Int \X Int, t \in Nat, growth \in Nat] ==
    IF t > Len(cash_flows) THEN 0
    ELSE Nearest(cash_flows[t][1] * Scale * PriceGrid,
                 cash_flows[t][2] *
                     Nearest(growth * (yield_rate[2] + yield_rate[1]), yield_rate[2]))
         + DiscountedSum[cash_flows, yield_rate, t + 1,
                         Nearest(growth * (yield_rate[2] + yield_rate[1]), yield_rate[2])]

\* get_bond_price discounting at 1 - yield_rate.
get_bond_price_growing(face, coupon, maturity, yield_rate) ==
    IF CashFlows[face, coupon, maturity] = <<>>
    THEN [raised |-> "IndexError", value |-> Undefined]
    ELSE [raised |-> "None",
          value |-> Norm[DiscountedSum[CashFlows[face, coupon, maturity],
                                       RNeg(yield_rate), 1, Scale], PriceGrid]]

\* Lines 65-69.  cash_flows[-1] of line 68 raises IndexError on the empty list.
get_bond_price(face, coupon, maturity, yield_rate) ==
    IF CashFlows[face, coupon, maturity] = <<>>
    THEN [raised |-> "IndexError", value |-> Undefined]
    ELSE [raised |-> "None",
          value |-> Norm[DiscountedSum[CashFlows[face, coupon, maturity],
                                       yield_rate, 1, Scale], PriceGrid]]

----------------------------------------------------------------------------
(* 2. Portfolio construction, lines 72-78 *)

portfolio_data == <<
    [Face |-> 5000, Coupon |-> Norm[175, 10000], Maturity |-> 10,
     Base_Yield |-> Norm[175, 10000]],
    [Face |-> 3000, Coupon |-> Norm[200, 10000], Maturity |-> 30,
     Base_Yield |-> Norm[200, 10000]],
    [Face |-> 2000, Coupon |-> Norm[150, 10000], Maturity |-> 5,
     Base_Yield |-> Norm[150, 10000]],
    [Face |-> 5000, Coupon |-> Norm[400, 10000], Maturity |-> 10,
     Base_Yield |-> Norm[400, 10000]] >>

Rows == DOMAIN portfolio_data

----------------------------------------------------------------------------
(* Sidebar inputs, lines 37-57 *)

RateMin == 0
RateMax == 500
RateStep == 25
RateDefault == 300
PctMin == 0
PctMax == 50
PctDefault == 25

RateValues == {RateMin + k * RateStep : k \in 0..((RateMax - RateMin) \div RateStep)}
PctValues == PctMin..PctMax

----------------------------------------------------------------------------
(* 4. Bank run constants, lines 88-91 *)

total_deposits == 180000
initial_equity == 15000
cash_reserves == 15000
afs_assets == 25000

\* the literals 0.90 and 0.10 of lines 103-111
NinetyPct == Norm[90, 100]
TenPct == Norm[10, 100]


----------------------------------------------------------------------------
(* The script run.  Streamlit executes app.py top to bottom; the first run  *)
(* sees the sliders' default values, and every later interaction with a     *)
(* slider runs the whole script again with fresh names.  A value computed   *)
(* once and used several times is bound by \E over a one-element set.       *)

NoResults ==
    /\ df = Undefined
    /\ withdrawal_amount = Undefined
    /\ remaining_withdrawal = Undefined
    /\ current_equity = Undefined
    /\ cash_used = Undefined
    /\ afs_needed = Undefined
    /\ afs_loss_realized = Undefined
    /\ htm_loss_pct = Undefined
    /\ htm_face_needed = Undefined
    /\ htm_loss_realized = Undefined
    /\ alert = Undefined

Init ==
    /\ rate_shock_bps = RateDefault
    /\ withdrawal_pct = PctDefault
    /\ pc = "ApplyShock"
    /\ NoResults
    /\ args = Undefined
    /\ ret = Undefined

\* 3. Apply Shock, lines 81-85.  An exception raised by get_bond_price ends
\* the run.
ApplyShock ==
    /\ pc = "ApplyShock"
    /\ \E initial \in {[i \in Rows |->
                          get_bond_price(portfolio_data[i].Face,
                                         portfolio_data[i].Coupon,
                                         portfolio_data[i].Maturity,
                                         portfolio_data[i].Base_Yield)]} :
       \E new_yield \in {[i \in Rows |->
                          RAdd(portfolio_data[i].Base_Yield,
                               RDiv(R(rate_shock_bps), R(10000)))]} :
       \E shocked \in {[i \in Rows |->
                          get_bond_price(portfolio_data[i].Face,
                                         portfolio_data[i].Coupon,
                                         portfolio_data[i].Maturity,
                                         new_yield[i])]} :
          IF \E i \in Rows : \/ initial[i].raised # "None"
                             \/ shocked[i].raised # "None"
          THEN /\ pc' = "Aborted"
               /\ df' = df
          ELSE /\ pc' = "CashTier"
               /\ df' = [Initial_Price |-> [i \in Rows |-> initial[i].value],
                         New_Yield     |-> new_yield,
                         Shocked_Price |-> [i \in Rows |-> shocked[i].value],
                         Loss          |-> [i \in Rows |->
                             RSub(shocked[i].value, initial[i].value)],
                         Loss_Pct      |-> [i \in Rows |->
                             RMul(RDiv(RSub(shocked[i].value, initial[i].value),
                                       initial[i].value), R(100))]]
    /\ UNCHANGED <<rate_shock_bps, withdrawal_pct, withdrawal_amount,
                   remaining_withdrawal, current_equity, cash_used, afs_needed,
                   afs_loss_realized, htm_loss_pct, htm_face_needed,
                   htm_loss_realized, alert, callvars>>

\* CashTier with the cash drawn charged against equity.
CashTier_equity_charged ==
    /\ pc = "CashTier"
    /\ \E w \in {RMul(R(total_deposits), RDiv(R(withdrawal_pct), R(100)))} :
       \E used \in {RMin(R(cash_reserves), w)} :
          /\ withdrawal_amount' = w
          /\ current_equity' = RSub(R(initial_equity), used)
          /\ cash_used' = used
          /\ remaining_withdrawal' = RSub(w, used)
    /\ pc' = "AfsTier"
    /\ UNCHANGED <<rate_shock_bps, withdrawal_pct, df, afs_needed,
                   afs_loss_realized, htm_loss_pct, htm_face_needed,
                   htm_loss_realized, alert, callvars>>

\* CashTier with max for min: the reserves are drawn in full whatever the demand.
CashTier_max ==
    /\ pc = "CashTier"
    /\ \E w \in {RMul(R(total_deposits), RDiv(R(withdrawal_pct), R(100)))} :
       \E used \in {IF RLeq(w, R(cash_reserves)) THEN R(cash_reserves) ELSE w} :
          /\ withdrawal_amount' = w
          /\ current_equity' = R(initial_equity)
          /\ cash_used' = used
          /\ remaining_withdrawal' = RSub(w, used)
    /\ pc' = "AfsTier"
    /\ UNCHANGED <<rate_shock_bps, withdrawal_pct, df, afs_needed,
                   afs_loss_realized, htm_loss_pct, htm_face_needed,
                   htm_loss_realized, alert, callvars>>

\* Lines 93-99: the demand, the starting equity and the cash tier.
CashTier ==
    /\ pc = "CashTier"
    /\ \E w \in {RMul(R(total_deposits), RDiv(R(withdrawal_pct), R(100)))} :
       \E used \in {RMin(R(cash_reserves), w)} :
          /\ withdrawal_amount' = w
          /\ current_equity' = R(initial_equity)
          /\ cash_used' = used
          /\ remaining_withdrawal' = RSub(w, used)
    /\ pc' = "AfsTier"
    /\ UNCHANGED <<rate_shock_bps, withdrawal_pct, df, afs_needed,
                   afs_loss_realized, htm_loss_pct, htm_face_needed,
                   htm_loss_realized, alert, callvars>>

\* AfsTier that leaves the demand standing when the AFS pool covers it.
AfsTier_demand_not_zeroed ==
    /\ pc = "AfsTier"
    /\ IF RLt(R(0), remaining_withdrawal)
       THEN \E needed \in {RDiv(remaining_withdrawal, NinetyPct)} :
               /\ afs_needed' = needed
               /\ IF RLeq(needed, R(afs_assets))
                  THEN \E loss \in {RMul(needed, TenPct)} :
                          /\ afs_loss_realized' = loss
                          /\ current_equity' = RSub(current_equity, loss)
                          /\ remaining_withdrawal' = remaining_withdrawal
                  ELSE \E loss \in {RMul(R(afs_assets), TenPct)} :
                          /\ afs_loss_realized' = loss
                          /\ current_equity' = RSub(current_equity, loss)
                          /\ remaining_withdrawal' =
                                 RSub(remaining_withdrawal, RMul(R(afs_assets), NinetyPct))
       ELSE /\ afs_loss_realized' = R(0)
            /\ UNCHANGED <<afs_needed, current_equity, remaining_withdrawal>>
    /\ pc' = "HtmTier"
    /\ UNCHANGED <<rate_shock_bps, withdrawal_pct, df, withdrawal_amount,
                   cash_used, htm_loss_pct, htm_face_needed, htm_loss_realized,
                   alert, callvars>>

\* AfsTier that takes the full AFS pool to raise its book value in cash.
AfsTier_proceeds_at_par ==
    /\ pc = "AfsTier"
    /\ IF RLt(R(0), remaining_withdrawal)
       THEN \E needed \in {RDiv(remaining_withdrawal, NinetyPct)} :
               /\ afs_needed' = needed
               /\ IF RLeq(needed, R(afs_assets))
                  THEN \E loss \in {RMul(needed, TenPct)} :
                          /\ afs_loss_realized' = loss
                          /\ current_equity' = RSub(current_equity, loss)
                          /\ remaining_withdrawal' = R(0)
                  ELSE \E loss \in {RMul(R(afs_assets), TenPct)} :
                          /\ afs_loss_realized' = loss
                          /\ current_equity' = RSub(current_equity, loss)
                          /\ remaining_withdrawal' =
                                 RSub(remaining_withdrawal, R(afs_assets))
       ELSE /\ afs_loss_realized' = R(0)
            /\ UNCHANGED <<afs_needed, current_equity, remaining_withdrawal>>
    /\ pc' = "HtmTier"
    /\ UNCHANGED <<rate_shock_bps, withdrawal_pct, df, withdrawal_amount,
                   cash_used, htm_loss_pct, htm_face_needed, htm_loss_realized,
                   alert, callvars>>

\* Lines 101-111: the AFS tier, sold at a 10% haircut.
AfsTier ==
    /\ pc = "AfsTier"
    /\ IF RLt(R(0), remaining_withdrawal)
       THEN \E needed \in {RDiv(remaining_withdrawal, NinetyPct)} :
               /\ afs_needed' = needed
               /\ IF RLeq(needed, R(afs_assets))
                  THEN \E loss \in {RMul(needed, TenPct)} :
                          /\ afs_loss_realized' = loss
                          /\ current_equity' = RSub(current_equity, loss)
                          /\ remaining_withdrawal' = R(0)
                  ELSE \E loss \in {RMul(R(afs_assets), TenPct)} :
                          /\ afs_loss_realized' = loss
                          /\ current_equity' = RSub(current_equity, loss)
                          /\ remaining_withdrawal' =
                                 RSub(remaining_withdrawal, RMul(R(afs_assets), NinetyPct))
       ELSE /\ afs_loss_realized' = R(0)
            /\ UNCHANGED <<afs_needed, current_equity, remaining_withdrawal>>
    /\ pc' = "HtmTier"
    /\ UNCHANGED <<rate_shock_bps, withdrawal_pct, df, withdrawal_amount,
                   cash_used, htm_loss_pct, htm_face_needed, htm_loss_realized,
                   alert, callvars>>

\* HtmTier that takes the loss on the cash raised, not on the face sold.
HtmTier_loss_on_cash_raised ==
    /\ pc = "HtmTier"
    /\ \E total_loss \in {RSum[df.Loss]} :
       \E total_initial \in {RSum[df.Initial_Price]} :
       \E pct \in {RAbs(RDiv(total_loss, total_initial))} :
          /\ htm_loss_pct' = pct
          /\ IF RLt(R(0), remaining_withdrawal)
             THEN \E face \in {RDiv(remaining_withdrawal, RSub(R(1), pct))} :
                  \E loss \in {RMul(remaining_withdrawal, pct)} :
                     /\ htm_face_needed' = face
                     /\ htm_loss_realized' = loss
                     /\ current_equity' = RSub(current_equity, loss)
             ELSE /\ htm_loss_realized' = R(0)
                  /\ UNCHANGED <<htm_face_needed, current_equity>>
    /\ pc' = "Render"
    /\ UNCHANGED <<rate_shock_bps, withdrawal_pct, df, withdrawal_amount,
                   remaining_withdrawal, cash_used, afs_needed,
                   afs_loss_realized, alert, callvars>>

\* HtmTier that sells face equal to the cash needed, as if at par.
HtmTier_face_at_par ==
    /\ pc = "HtmTier"
    /\ \E total_loss \in {RSum[df.Loss]} :
       \E total_initial \in {RSum[df.Initial_Price]} :
       \E pct \in {RAbs(RDiv(total_loss, total_initial))} :
          /\ htm_loss_pct' = pct
          /\ IF RLt(R(0), remaining_withdrawal)
             THEN \E face \in {remaining_withdrawal} :
                  \E loss \in {RMul(face, pct)} :
                     /\ htm_face_needed' = face
                     /\ htm_loss_realized' = loss
                     /\ current_equity' = RSub(current_equity, loss)
             ELSE /\ htm_loss_realized' = R(0)
                  /\ UNCHANGED <<htm_face_needed, current_equity>>
    /\ pc' = "Render"
    /\ UNCHANGED <<rate_shock_bps, withdrawal_pct, df, withdrawal_amount,
                   remaining_withdrawal, cash_used, afs_needed,
                   afs_loss_realized, alert, callvars>>

\* Lines 113-119: the HTM tier, sold at the portfolio's loss fraction.
HtmTier ==
    /\ pc = "HtmTier"
    /\ \E total_loss \in {RSum[df.Loss]} :
       \E total_initial \in {RSum[df.Initial_Price]} :
       \E pct \in {RAbs(RDiv(total_loss, total_initial))} :
          /\ htm_loss_pct' = pct
          /\ IF RLt(R(0), remaining_withdrawal)
             THEN \E face \in {RDiv(remaining_withdrawal, RSub(R(1), pct))} :
                  \E loss \in {RMul(face, pct)} :
                     /\ htm_face_needed' = face
                     /\ htm_loss_realized' = loss
                     /\ current_equity' = RSub(current_equity, loss)
             ELSE /\ htm_loss_realized' = R(0)
                  /\ UNCHANGED <<htm_face_needed, current_equity>>
    /\ pc' = "Render"
    /\ UNCHANGED <<rate_shock_bps, withdrawal_pct, df, withdrawal_amount,
                   remaining_withdrawal, cash_used, afs_needed,
                   afs_loss_realized, alert, callvars>>

\* Lines 124-240: the frontend; of it, the solvency alert of lines 139-144.
Render ==
    /\ pc = "Render"
    /\ alert' = IF RLt(current_equity, R(0)) THEN "INSOLVENCY"
                ELSE IF RLt(current_equity, R(5000)) THEN "CRITICAL"
                ELSE "STABLE"
    /\ pc' = "Done"
    /\ UNCHANGED <<rate_shock_bps, withdrawal_pct, df, withdrawal_amount,
                   remaining_withdrawal, current_equity, cash_used, afs_needed,
                   afs_loss_realized, htm_loss_pct, htm_face_needed,
                   htm_loss_realized, callvars>>

\* One of the two sliders is moved (lines 38-56), or the page is run again
\* as it is: the script runs again from the top.
Rerun ==
    /\ pc = "Done"
    /\ \/ /\ rate_shock_bps' \in RateValues
          /\ withdrawal_pct' = withdrawal_pct
       \/ /\ withdrawal_pct' \in PctValues
          /\ rate_shock_bps' = rate_shock_bps
    /\ pc' = "ApplyShock"
    /\ df' = Undefined
    /\ withdrawal_amount' = Undefined
    /\ remaining_withdrawal' = Undefined
    /\ current_equity' = Undefined
    /\ cash_used' = Undefined
    /\ afs_needed' = Undefined
    /\ afs_loss_realized' = Undefined
    /\ htm_loss_pct' = Undefined
    /\ htm_face_needed' = Undefined
    /\ htm_loss_realized' = Undefined
    /\ alert' = Undefined
    /\ UNCHANGED callvars

Step == ApplyShock \/ CashTier \/ AfsTier \/ HtmTier \/ Render

Next == Step \/ Rerun

Spec == Init /\ [][Next]_vars

\* A started script run is executed to its end; nothing obliges the user to
\* move a slider again.
FairSpec == Spec /\ WF_vars(Step)


----------------------------------------------------------------------------
(* get_bond_price called on its own.  The positions are the portfolio's     *)
(* four and small ones around the edges of the function's domain (negative  *)
(* and zero face, zero coupon, maturities from -1); the two yields are the  *)
(* position's base yield moved by slider steps, downward ones included.     *)

MaxProbeMaturity == 2
MaxDownSteps == 4

ProbePositions ==
    {portfolio_data[i] : i \in Rows} \cup
    {[Face |-> f, Coupon |-> c, Maturity |-> m, Base_Yield |-> Norm[200, 10000]] :
        f \in {-1000, 0, 1000}, c \in {R(0), Norm[200, 10000]},
        m \in (-1)..MaxProbeMaturity}

ProbeShocks == {k * RateStep : k \in (-MaxDownSteps)..(RateMax \div RateStep)}

PriceInit ==
    /\ pc = "Call"
    /\ args \in [pos : ProbePositions, shock1 : ProbeShocks, shock2 : ProbeShocks]
    /\ ret = Undefined
    /\ rate_shock_bps = RateDefault
    /\ withdrawal_pct = PctDefault
    /\ NoResults

ProbeYield(shock) == RAdd(args.pos.Base_Yield, RDiv(R(shock), R(10000)))

PriceCall ==
    /\ pc = "Call"
    /\ ret' = <<get_bond_price(args.pos.Face, args.pos.Coupon,
                               args.pos.Maturity, ProbeYield(args.shock1)),
                get_bond_price(args.pos.Face, args.pos.Coupon,
                               args.pos.Maturity, ProbeYield(args.shock2))>>
    /\ pc' = "Returned"
    /\ UNCHANGED <<progvars, args>>

PriceNext == PriceCall

PriceSpec == PriceInit /\ [][PriceNext]_vars


----------------------------------------------------------------------------
(* Properties *)

\* The waterfall of this run has finished (lines 93-119 are behind).
WaterfallDone == pc \in {"Render", "Done"}

\* The aggregate loss fraction is in [0, 1).
LossFractionInRange ==
    /\ RLeq(R(0), htm_loss_pct)
    /\ RLt(htm_loss_pct, R(1))

\* C1.  Equity conservation: at the end of the waterfall the reported equity
\* is initial_equity - afs_loss_realized - htm_loss_realized, and the cash
\* tier leaves equity at initial_equity.
EquityConservation ==
    /\ pc = "AfsTier" => current_equity = R(initial_equity)
    /\ (WaterfallDone /\ LossFractionInRange) =>
           current_equity =
               RSub(RSub(R(initial_equity), afs_loss_realized), htm_loss_realized)

\* A finished run that realized both an AFS and an HTM loss.
EquityConservationWitness ==
    /\ pc = "Done"
    /\ RLt(R(0), afs_loss_realized)
    /\ RLt(R(0), htm_loss_realized)
    /\ RLt(current_equity, R(initial_equity))

\* C2.  Cash-only scenarios destroy no capital: when withdrawal_amount <=
\* cash_reserves, whatever the rate shock, cash_used = withdrawal_amount,
\* both realized losses are 0 and the final equity is initial_equity.
CashOnlyNoCapitalLoss ==
    (WaterfallDone /\ RLeq(withdrawal_amount, R(cash_reserves))) =>
        /\ cash_used = withdrawal_amount
        /\ afs_loss_realized = R(0)
        /\ htm_loss_realized = R(0)
        /\ current_equity = R(initial_equity)

\* A finished run under a rate shock whose demand the cash reserves cover.
CashOnlyWitness ==
    /\ pc = "Done"
    /\ rate_shock_bps > 0
    /\ RLt(R(0), withdrawal_amount)
    /\ RLt(withdrawal_amount, R(cash_reserves))

AfsEngaged == afs_needed # Undefined
HtmEngaged == htm_face_needed # Undefined

TierOrdering ==
    /\ AfsEngaged =>
           /\ cash_used = R(cash_reserves)
           /\ RLt(cash_used, withdrawal_amount)
    /\ HtmEngaged =>
           /\ AfsEngaged
           /\ afs_loss_realized = RMul(R(afs_assets), TenPct)
           /\ RLt(R(0), remaining_withdrawal)

Rank(p) ==
    CASE p = "ApplyShock" -> 0
      [] p = "CashTier" -> 1
      [] p = "AfsTier" -> 2
      [] p = "HtmTier" -> 3
      [] p = "Render" -> 4
      [] p = "Done" -> 5

ForwardOnly ==
    \/ Rank(pc') = Rank(pc) + 1
    \/ pc = "Done" /\ pc' = "ApplyShock"

\* C3.  The waterfall is one forward pass Cash -> AFS -> HTM -> Done that
\* always reaches Done; the AFS tier draws only if the cash reserves are used
\* up and demand remains, and the HTM tier sells only if demand remains after
\* the whole AFS pool has been liquidated.
WaterfallSinglePass ==
    /\ []TierOrdering
    /\ [][ForwardOnly]_vars
    /\ (pc = "CashTier") ~> WaterfallDone

\* A finished run in which all three tiers were engaged.
WaterfallSinglePassWitness ==
    /\ pc = "Done"
    /\ AfsEngaged
    /\ HtmEngaged

\* C4.  AFS tier result for the demand X > 0 left by the cash tier: if
\* X / 0.90 <= afs_assets the loss is (X / 0.90) * 0.10 and no demand
\* remains; otherwise the loss is afs_assets * 0.10 and the demand left is
\* X - afs_assets * 0.90 > 0.  Reference case (25% withdrawn): demand 45000,
\* loss 2500, demand left 7500.
AfsTierResult ==
    (pc \in {"HtmTier", "Render", "Done"}) =>
        LET X == RSub(withdrawal_amount, cash_used)
        IN  /\ RLt(R(0), X) =>
                IF RLeq(RDiv(X, NinetyPct), R(afs_assets))
                THEN /\ afs_loss_realized = RMul(RDiv(X, NinetyPct), TenPct)
                     /\ RMul(afs_loss_realized, R(9)) = X
                     /\ remaining_withdrawal = R(0)
                ELSE /\ afs_loss_realized = RMul(R(afs_assets), TenPct)
                     /\ remaining_withdrawal =
                            RSub(X, RMul(R(afs_assets), NinetyPct))
                     /\ RLt(R(0), remaining_withdrawal)
            /\ withdrawal_pct = 25 =>
                /\ withdrawal_amount = R(45000)
                /\ X = R(30000)
                /\ afs_loss_realized = R(2500)
                /\ remaining_withdrawal = R(7500)

\* The reference case after the AFS tier.
AfsTierResultWitness ==
    /\ pc = "HtmTier"
    /\ withdrawal_pct = 25
    /\ AfsEngaged

HtmTierState ==
    (WaterfallDone /\ LossFractionInRange) =>
        IF RLt(R(0), remaining_withdrawal)
        THEN /\ HtmEngaged
             /\ htm_face_needed = RDiv(remaining_withdrawal, RSub(R(1), htm_loss_pct))
             /\ RMul(htm_face_needed, RSub(R(1), htm_loss_pct)) = remaining_withdrawal
             /\ htm_loss_realized = RMul(htm_face_needed, htm_loss_pct)
             /\ htm_loss_realized = RSub(htm_face_needed, remaining_withdrawal)
        ELSE htm_loss_realized = R(0)

HtmTierChargesEquity ==
    pc = "HtmTier" => current_equity' = RSub(current_equity, htm_loss_realized')

\* C5.  HTM tier result for the demand X > 0 left after the AFS pool and a
\* loss fraction L in [0, 1): face sold F = X / (1 - L), loss F * L, so that
\* F * (1 - L) = X, and the loss is subtracted from equity; with no demand
\* left after the AFS tier the HTM loss is 0.
HtmTierResult ==
    /\ []HtmTierState
    /\ [][HtmTierChargesEquity]_vars

\* A finished run that sold HTM face at a positive loss fraction.
HtmTierResultWitness ==
    /\ pc = "Done"
    /\ HtmEngaged
    /\ RLt(R(0), htm_loss_pct)
    /\ RLt(R(0), htm_loss_realized)

\* C7 as stated: a position with maturity < 1 or face < 0 makes the valuation
\* signal an error instead of returning a price.
InvalidPositionSignalled ==
    (pc = "Returned" /\ (args.pos.Maturity < 1 \/ args.pos.Face < 0)) =>
        /\ ret[1].raised # "None"
        /\ ret[2].raised # "None"

ValidPosition(pos) ==
    /\ pos.Face > 0
    /\ RLeq(R(0), pos.Coupon)
    /\ pos.Maturity >= 1

\* C9.  Price monotonicity: for a position with face > 0, coupon >= 0 and
\* maturity >= 1 and two yields y1 < y2, price(y1) > price(y2); so a position's
\* loss (price at the shocked yield minus price at the base yield) is
\* negative for every shock > 0, and 0 for shock 0.
PriceMonotone ==
    (pc = "Returned" /\ ValidPosition(args.pos)) =>
        /\ ret[1].raised = "None"
        /\ ret[2].raised = "None"
        /\ args.shock1 < args.shock2 => RLt(ret[2].value, ret[1].value)
        /\ (args.shock1 = 0 /\ args.shock2 > 0) =>
               RLt(RSub(ret[2].value, ret[1].value), R(0))
        /\ args.shock1 = args.shock2 => RSub(ret[2].value, ret[1].value) = R(0)

\* The portfolio's 30-year position priced at its base yield and 300 bps up.
PriceMonotoneWitness ==
    /\ pc = "Returned"
    /\ args.pos = portfolio_data[2]
    /\ args.shock1 = 0
    /\ args.shock2 = 300
    /\ RLt(ret[2].value, ret[1].value)

\* Net cash the three tiers raised: cash, 90% of the AFS book value sold,
\* and the HTM face sold less its loss fraction.
NetCashRaised ==
    LET afs_sold == IF AfsEngaged THEN RMin(afs_needed, R(afs_assets)) ELSE R(0)
        htm_sold == IF HtmEngaged THEN htm_face_needed ELSE R(0)
    IN  RAdd(RAdd(cash_used, RMul(NinetyPct, afs_sold)),
             RMul(htm_sold, RSub(R(1), htm_loss_pct)))

\* C10.  The waterfall meets the whole demand and never over-draws: the
\* remaining demand is never negative, and the net cash raised by the three
\* tiers equals withdrawal_amount; the HTM tier has no capacity limit, so
\* equity can go below zero.
DemandFullyMet ==
    /\ remaining_withdrawal # Undefined => RLeq(R(0), remaining_withdrawal)
    /\ withdrawal_amount # Undefined => RLeq(R(0), withdrawal_amount)
    /\ (WaterfallDone /\ LossFractionInRange) =>
           NetCashRaised = withdrawal_amount

\* A finished run whose HTM sale took equity below zero.
DemandFullyMetWitness ==
    /\ pc = "Done"
    /\ HtmEngaged
    /\ RLt(current_equity, R(0))
    /\ alert = "INSOLVENCY"

----------------------------------------------------------------------------
(* Reachability facts behind the claims about rejected inputs *)

\* The loss fraction the script computes stays below 1.
LossFractionBelowOne ==
    htm_loss_pct # Undefined => LossFractionInRange

\* The sliders only deliver values of their ranges.
ParametersInRange ==
    /\ rate_shock_bps \in RateValues
    /\ withdrawal_pct \in PctValues

============================================================================
